---- MODULE Spec2Model ----
(***************************************************************************)
(* Evo: a line-based RGA CRDT (internal/crdt), the binary op log           *)
(* (internal/ops), the commit layer (internal/commits, internal/streams)   *)
(* and the compactor (internal/crdt/compact).                              *)
(*                                                                         *)
(* A uuid is modelled by a natural number: its rank in the order of the    *)
(* uuid strings (NodeID.String() < NodeID.String() is what LessThan        *)
(* compares).  The zero uuid / the zero lamport of an Operation literal    *)
(* that leaves the field out is 0.                                         *)
(***************************************************************************)
EXTENDS Integers, Naturals, Sequences, FiniteSets, TLC

VARIABLES rga, delivered, err, causal,        \* one RGA document and the ops delivered to it
          logFile, appended, tail, loaded,   \* one op log file, its appends and the last load
          opsLog, commitDir, clock, nextID, lastCall, \* one repository: .evo/ops, .evo/commits, time, uuids, last call
          writers, cycle, reader,             \* threads: inside AppendOp, the compaction service, a LoadAllOps
          service,                            \* the goroutine of CompactionService.Start, its ticker and its done channel
          store                               \* the large-file store: .evo/lfs, .evo/chunks, its mutex, the calls in progress

rgaVars == <<rga, delivered, err, causal>>
logVars == <<logFile, appended, tail, loaded>>
repoVars == <<opsLog, commitDir, clock, nextID, lastCall>>
concVars == <<writers, cycle, reader, service, store>>
vars == <<rgaVars, logVars, repoVars, concVars>>

(***************************************************************************)
(* Bounds of the model.                                                    *)
(***************************************************************************)
MaxLamport == 2
MaxApplied == 3
MaxRecords == 2
NodeIDs == {1, 2}
LineIDs == {1, 2, 3}
Contents == {"a", "b"}

(***************************************************************************)
(* internal/crdt: Operation                                                *)
(***************************************************************************)
OpInsert == 0
OpUpdate == 1
OpDelete == 2

Operation(t, lam, node, file, line, content, stream, ts) ==
    [Type |-> t, Lamport |-> lam, NodeID |-> node, FileID |-> file,
     LineID |-> line, Content |-> content, Stream |-> stream, Timestamp |-> ts]

LessThanNoTieBreak(o, other) == o.Lamport < other.Lamport

LessThan(o, other) ==
    IF o.Lamport # other.Lamport
    THEN o.Lamport < other.Lamport
    ELSE o.NodeID < other.NodeID

(***************************************************************************)
(* sort.Slice(s, less): not stable, so every arrangement of s that is      *)
(* sorted under LessThan is a possible result.                             *)
(***************************************************************************)
RemoveAt(s, i) == SubSeq(s, 1, i - 1) \o SubSeq(s, i + 1, Len(s))

IsSorted(s) == \A i \in 1..Len(s) : \A j \in 1..Len(s) : i < j => ~LessThan(s[j], s[i])

SortSliceNone(s) == {s}

\* Every sorted arrangement starts with an element no other one is less than.
RECURSIVE SortSlice(_)
SortSlice(s) ==
    IF s = <<>> THEN {<<>>}
    ELSE UNION {{<<s[i]>> \o t : t \in SortSlice(RemoveAt(s, i))} :
                   i \in {k \in 1..Len(s) : \A j \in 1..Len(s) : ~LessThan(s[j], s[k])}}

(***************************************************************************)
(* internal/crdt: RGA                                                      *)
(***************************************************************************)
ErrNil == "nil"
ErrUnknownLine == "line not found for update"
ErrUnknownType == "unknown operation type"

NewRGA == [ops |-> <<>>, tombstone |-> {}]

HasEntry(r, line) == \E i \in 1..Len(r.ops) : r.ops[i].LineID = line

FirstEntry(r, line) ==
    CHOOSE i \in 1..Len(r.ops) :
        /\ r.ops[i].LineID = line
        /\ \A j \in 1..(i - 1) : r.ops[j].LineID # line

\* An Apply whose Update inserts the line it does not find.
ApplyUpsert(r, op) ==
    CASE op.Type = OpInsert ->
           {[rga |-> [r EXCEPT !.ops = t], err |-> ErrNil] :
               t \in SortSlice(Append(r.ops, op))}
      [] op.Type = OpDelete ->
           {[rga |-> [r EXCEPT !.tombstone = r.tombstone \cup {op.LineID}],
             err |-> ErrNil]}
      [] op.Type = OpUpdate ->
           IF HasEntry(r, op.LineID)
           THEN {[rga |-> [r EXCEPT !.ops[FirstEntry(r, op.LineID)].Content = op.Content],
                  err |-> ErrNil]}
           ELSE {[rga |-> [r EXCEPT !.ops = Append(r.ops, op)], err |-> ErrNil]}
      [] OTHER -> {[rga |-> r, err |-> ErrUnknownType]}

\* The set of outcomes [rga, err] of r.Apply(op).
Apply(r, op) ==
    CASE op.Type = OpInsert ->
           {[rga |-> [r EXCEPT !.ops = t], err |-> ErrNil] :
               t \in SortSlice(Append(r.ops, op))}
      [] op.Type = OpDelete ->
           {[rga |-> [r EXCEPT !.tombstone = r.tombstone \cup {op.LineID}],
             err |-> ErrNil]}
      [] op.Type = OpUpdate ->
           IF HasEntry(r, op.LineID)
           THEN {[rga |-> [r EXCEPT !.ops[FirstEntry(r, op.LineID)].Content = op.Content],
                  err |-> ErrNil]}
           ELSE {[rga |-> r, err |-> ErrUnknownLine]}
      [] OTHER -> {[rga |-> r, err |-> ErrUnknownType]}

Live(r) == SelectSeq(r.ops, LAMBDA e : e.LineID \notin r.tombstone)

Materialize(r) == [i \in 1..Len(Live(r)) |-> Live(r)[i].Content]

GetLineIDs(r) == [i \in 1..Len(Live(r)) |-> Live(r)[i].LineID]

LineMap(r) ==
    [l \in {Live(r)[i].LineID : i \in 1..Len(Live(r))} |->
        LET last == CHOOSE i \in 1..Len(Live(r)) :
                        /\ Live(r)[i].LineID = l
                        /\ \A j \in (i + 1)..Len(Live(r)) : Live(r)[j].LineID # l
        IN  Live(r)[last].Content]

\* Replay of a list of ops on a fresh RGA, errors ignored (one outcome of the sort).
RECURSIVE ReplayOn(_, _)
ReplayOn(r, ops) ==
    IF ops = <<>> THEN r
    ELSE ReplayOn((CHOOSE o \in Apply(r, Head(ops)) : TRUE).rga, Tail(ops))

(***************************************************************************)
(* Delivery of ops to one document.                                        *)
(***************************************************************************)
TheFile == 1
TheStream == "main"

OpUniverse ==
    {Operation(t, lam, n, TheFile, l, c, TheStream, 0) :
        t \in {OpInsert, OpUpdate}, lam \in 1..MaxLamport, n \in NodeIDs,
        l \in LineIDs, c \in Contents}
    \cup
    {Operation(OpDelete, lam, n, TheFile, l, "", TheStream, 0) :
        lam \in 1..MaxLamport, n \in NodeIDs, l \in LineIDs}

KeyUsed(op) == \E d \in delivered : d.Lamport = op.Lamport /\ d.NodeID = op.NodeID

RGAIdle ==
    /\ rga = NewRGA
    /\ delivered = {}
    /\ err = ErrNil
    /\ causal = TRUE

LogIdle ==
    /\ logFile = <<>>
    /\ appended = <<>>
    /\ tail = "clean"
    /\ loaded = [ops |-> <<>>, err |-> ErrNil]

\* A repository right after InitRepo and CreateStream: the streams exist, no
\* op log has been written (a missing log file loads as the empty list) and
\* no commit has been saved.
Streams == {"feature", "main"}
ZeroUUID == 0

RepoFiles == {ZeroUUID, TheFile}
NoCall == [n |-> 0, call |-> "", source |-> "", stream |-> "", commit |-> ZeroUUID,
           new |-> ZeroUUID, err |-> ErrNil, done |-> TRUE]

RepoIdle ==
    /\ opsLog = [s \in Streams |-> [f \in RepoFiles |-> <<>>]]
    /\ commitDir = [s \in Streams |-> {}]
    /\ clock = 1
    /\ nextID = TheFile + 1
    /\ lastCall = NoCall

\* No thread is inside AppendOp, the compaction service is between two
\* ticks, and no LoadAllOps has been made by the reader.
Threads == {1, 2}
NoReading == [stream |-> "", file |-> ZeroUUID, during |-> FALSE, ops |-> <<>>, err |-> ErrNil]
\* NewCompactionService and Start: the goroutine waits in its select, the
\* ticker has sent nothing and the done channel is open
ServiceStarted == [pc |-> "select", tick |-> FALSE, done |-> FALSE]
\* lfs.NewStore: no file, no chunk, the mutex free, no garbage collection
\* running; `stored` remembers the bytes of the files stored and not deleted
LfsIDs == {1, 2, 3}
NoInfo == [ContentHash |-> <<>>, Chunks |-> <<>>, RefCount |-> 0]
NewStore ==
    [infos |-> [id \in LfsIDs |-> NoInfo], chunks |-> {}, mu |-> "", id |-> 0, data |-> <<>>,
     gc |-> <<>>, running |-> FALSE, stored |-> [id \in LfsIDs |-> <<>>], n |-> 0]
ConcIdle ==
    /\ writers = [t \in Threads |-> [pc |-> "idle", op |-> <<>>]]
    /\ cycle = [pc |-> "idle", streams |-> <<>>, stream |-> "", files |-> <<>>, had |-> {}]
    /\ reader = NoReading
    /\ service = ServiceStarted
    /\ store = NewStore

InitRGA == RGAIdle /\ LogIdle /\ RepoIdle /\ ConcIdle

ApplyStep(op) ==
    /\ Cardinality(delivered) < MaxApplied
    /\ ~KeyUsed(op)
    /\ \E out \in Apply(rga, op) :
        /\ rga' = out.rga
        /\ err' = out.err
        /\ delivered' = IF out.err = ErrNil THEN delivered \cup {op} ELSE delivered
        /\ causal' = (causal /\ (op.Type = OpDelete => HasEntry(rga, op.LineID)))
    /\ UNCHANGED <<logVars, repoVars, concVars>>

RGAApply == \E op \in OpUniverse : ApplyStep(op)

NextRGA == RGAApply

SpecRGA == InitRGA /\ [][NextRGA]_vars

(***************************************************************************)
(* internal/ops: the binary op log.  A file is a sequence of bytes.  A     *)
(* uuid's 16 bytes and a lamport's 8 bytes are the big-endian digits of    *)
(* the number that models it; a number that does not fit TLC's integers is *)
(* kept as its digits.                                                     *)
(***************************************************************************)
TypeSize == 1
LamportSize == 8
UUIDSize == 16
LenSize == 4
HeaderSize == TypeSize + LamportSize + UUIDSize + UUIDSize + UUIDSize + LenSize

\* The last three digits carry every number the model encodes (< 256^3).
BigEndian(n, w) ==
    [i \in 1..w |-> IF w - i >= 3 THEN 0
                    ELSE IF w - i = 2 THEN (n \div 65536) % 256
                    ELSE IF w - i = 1 THEN (n \div 256) % 256
                    ELSE n % 256]

LittleEndian(n, w) == [i \in 1..w |-> BigEndian(n, w)[w + 1 - i]]

FromBigEndian(b) ==
    IF \A i \in 1..(Len(b) - 3) : b[i] = 0
    THEN b[Len(b) - 2] * 65536 + b[Len(b) - 1] * 256 + b[Len(b)]
    ELSE b

\* []byte(s) and string(b) for the strings of the model; other bytes stay bytes.
ByteTable ==
    ("" :> <<>>) @@ ("a" :> <<97>>) @@ ("b" :> <<98>>) @@ ("ab" :> <<97, 98>>)

Bytes(str) == ByteTable[str]

String(b) ==
    IF \E c \in DOMAIN ByteTable : ByteTable[c] = b
    THEN CHOOSE c \in DOMAIN ByteTable : ByteTable[c] = b
    ELSE b

\* A WriteOp that writes the content length least significant byte first.
WriteOpLittleEndianLen(op) ==
    <<op.Type % 256>> \o BigEndian(op.Lamport, LamportSize)
        \o BigEndian(op.NodeID, UUIDSize) \o BigEndian(op.FileID, UUIDSize)
        \o BigEndian(op.LineID, UUIDSize)
        \o LittleEndian(Len(Bytes(op.Content)), LenSize)
        \o Bytes(op.Content)

\* The bytes WriteOp writes: the header in one Write, the content in a second.
WriteOp(op) ==
    <<op.Type % 256>> \o BigEndian(op.Lamport, LamportSize)
        \o BigEndian(op.NodeID, UUIDSize) \o BigEndian(op.FileID, UUIDSize)
        \o BigEndian(op.LineID, UUIDSize)
        \o BigEndian(Len(Bytes(op.Content)), LenSize)
        \o Bytes(op.Content)

ErrEOF == "EOF"
ErrUnexpectedEOF == "unexpected EOF"

\* io.ReadFull(r, buf) on the n bytes left: EOF when none is left, and
\* ErrUnexpectedEOF when fewer than len(buf) are.
ReadFull(left, want) ==
    IF left >= want THEN ErrNil
    ELSE IF left = 0 THEN ErrEOF ELSE ErrUnexpectedEOF

\* A content length whose first digit is not 0 is at least 256^3: more than
\* any file of the model holds.
ContentLen(header) ==
    LET b == SubSeq(header, HeaderSize - LenSize + 1, HeaderSize)
    IN  IF b[1] # 0 THEN 16777216 ELSE b[2] * 65536 + b[3] * 256 + b[4]

\* A ReadOp that takes whatever is left of a content cut short.
ReadOpShortContent(f, pos) ==
    LET left == Len(f) - pos
        header == SubSeq(f, pos + 1, pos + HeaderSize)
    IN  IF ReadFull(left, HeaderSize) # ErrNil
        THEN [op |-> <<>>, err |-> ReadFull(left, HeaderSize), next |-> pos]
        ELSE LET n == IF ContentLen(header) > left - HeaderSize
                      THEN left - HeaderSize ELSE ContentLen(header)
             IN  [op |-> Operation(header[1],
                                   FromBigEndian(SubSeq(header, 2, 9)),
                                   FromBigEndian(SubSeq(header, 10, 25)),
                                   FromBigEndian(SubSeq(header, 26, 41)),
                                   FromBigEndian(SubSeq(header, 42, 57)),
                                   String(SubSeq(f, pos + HeaderSize + 1, pos + HeaderSize + n)),
                                   "", 0),
                  err |-> ErrNil,
                  next |-> pos + HeaderSize + n]

\* ReadOp on file f read up to pos: [op, err, next].
ReadOp(f, pos) ==
    LET left == Len(f) - pos
        header == SubSeq(f, pos + 1, pos + HeaderSize)
    IN  IF ReadFull(left, HeaderSize) # ErrNil
        THEN [op |-> <<>>, err |-> ReadFull(left, HeaderSize), next |-> pos]
        ELSE LET n == ContentLen(header)
             IN  IF n > 0 /\ ReadFull(left - HeaderSize, n) # ErrNil
                 THEN [op |-> <<>>, err |-> ReadFull(left - HeaderSize, n), next |-> pos]
                 ELSE [op |-> Operation(header[1],
                                        FromBigEndian(SubSeq(header, 2, 9)),
                                        FromBigEndian(SubSeq(header, 10, 25)),
                                        FromBigEndian(SubSeq(header, 26, 41)),
                                        FromBigEndian(SubSeq(header, 42, 57)),
                                        String(SubSeq(f, pos + HeaderSize + 1, pos + HeaderSize + n)),
                                        "", 0),
                       err |-> ErrNil,
                       next |-> pos + HeaderSize + n]

\* LoadAllOps: EOF ends the loop, any other read error returns what was read.
RECURSIVE LoadFrom(_, _, _)
LoadFrom(f, pos, out) ==
    LET r == ReadOp(f, pos)
    IN  IF r.err = ErrEOF THEN [ops |-> out, err |-> ErrNil]
        ELSE IF r.err # ErrNil THEN [ops |-> out, err |-> ErrNil]
        ELSE LoadFrom(f, r.next, Append(out, r.op))

LoadAllOps(f) == LoadFrom(f, 0, <<>>)

\* What a record keeps of an op: Stream, Timestamp and Vector are not written.
Persisted(op) == [op EXCEPT !.Stream = "", !.Timestamp = 0]

(***************************************************************************)
(* Appends to, crashes on and loads of one log file.                       *)
(***************************************************************************)
LogOps ==
    {Operation(t, lam, 1, TheFile, 1, c, TheStream, 1) :
        t \in {OpInsert, OpDelete}, lam \in 1..MaxLamport, c \in {"", "a", "ab"}}

Records == Len(appended) + (IF tail = "clean" THEN 0 ELSE 1)

\* AppendOp(filename, op) runs to its end.
AppendOp(op) ==
    /\ Records < MaxRecords
    /\ logFile' = logFile \o WriteOp(op)
    /\ appended' = Append(appended, op)
    /\ tail' = IF tail = "clean" THEN "clean" ELSE "dirty"
    /\ UNCHANGED <<loaded, rgaVars, repoVars, concVars>>

LogAppend == \E op \in LogOps : AppendOp(op)

\* The process is killed inside AppendOp: a strict prefix of the record is on disk.
LogTornAppend ==
    \E op \in LogOps : \E cut \in 1..(Len(WriteOp(op)) - 1) :
        /\ tail = "clean"
        /\ Records < MaxRecords
        /\ logFile' = logFile \o SubSeq(WriteOp(op), 1, cut)
        /\ tail' = "torn"
        /\ UNCHANGED <<appended, loaded, rgaVars, repoVars, concVars>>

LogLoad ==
    /\ loaded' = LoadAllOps(logFile)
    /\ UNCHANGED <<logFile, appended, tail, rgaVars, repoVars, concVars>>

InitLog == RGAIdle /\ LogIdle /\ RepoIdle /\ ConcIdle

NextLog == LogAppend \/ LogTornAppend \/ LogLoad

SpecLog == InitLog /\ [][NextLog]_vars

PersistedAll(ops) == [i \in 1..Len(ops) |-> Persisted(ops[i])]

\* C4: with no crash, LoadAllOps returns exactly the appended ops (the
\* fields a record keeps), each once, in the order of the appends.
C4_LoadReturnsAppends ==
    tail = "clean" => LoadAllOps(logFile) = [ops |-> PersistedAll(appended), err |-> ErrNil]

C4_Witness ==
    /\ tail = "clean"
    /\ Len(appended) = 2
    /\ appended[1] # appended[2]
    /\ appended[1].Content = "ab"
    /\ loaded = [ops |-> PersistedAll(appended), err |-> ErrNil]

\* C5: n complete records followed by a strict prefix of one more load as
\* the n complete ops, nothing of the partial tail, and no error.
C5_TornTail ==
    tail = "torn" => LoadAllOps(logFile) = [ops |-> PersistedAll(appended), err |-> ErrNil]

RECURSIVE RecordBytes(_)
RecordBytes(ops) ==
    IF ops = <<>> THEN 0 ELSE Len(WriteOp(Head(ops))) + RecordBytes(Tail(ops))

\* One complete record, then a header and a part of its content.
C5_Witness ==
    /\ tail = "torn"
    /\ Len(appended) = 1
    /\ Len(logFile) > RecordBytes(appended) + HeaderSize
    /\ loaded = [ops |-> PersistedAll(appended), err |-> ErrNil]

\* One complete record, then a header cut short.
C5_WitnessHeader ==
    /\ tail = "torn"
    /\ Len(appended) = 1
    /\ Len(logFile) < RecordBytes(appended) + HeaderSize
    /\ loaded = [ops |-> PersistedAll(appended), err |-> ErrNil]

(***************************************************************************)
(* Properties of the RGA.                                                  *)
(***************************************************************************)
\* One delivery order every legal causal history permits: the Inserts, then
\* the Updates, then the Deletes, each group by (lamport, node).
CanonLess(a, b) == a.Type < b.Type \/ (a.Type = b.Type /\ LessThan(a, b))

RECURSIVE CanonicalOrder(_)
CanonicalOrder(S) ==
    IF S = {} THEN <<>>
    ELSE LET m == CHOOSE x \in S : \A y \in S \ {x} : CanonLess(x, y)
         IN  <<m>> \o CanonicalOrder(S \ {m})

\* C1: Convergence. Whatever permitted order (every Update/Delete after the
\* Insert of its line) the delivered ops were applied in, Materialize() is
\* the one the canonical permitted order of the same ops gives.
C1_Convergence ==
    causal => Materialize(rga) = Materialize(ReplayOn(NewRGA, CanonicalOrder(delivered)))

KeyBefore(a, b) ==
    a.Lamport < b.Lamport \/ (a.Lamport = b.Lamport /\ a.NodeID < b.NodeID)

Writers(line) == {d \in delivered : d.LineID = line /\ d.Type \in {OpInsert, OpUpdate}}

\* C8: Last writer wins. The content of every live line is the content of
\* the op with the highest (lamport, node) among the Insert and the Updates
\* applied for its LineID.
C8_LastWriterWins ==
    \A i \in 1..Len(Live(rga)) :
        LET line == Live(rga)[i].LineID
        IN  Cardinality({d \in delivered : d.LineID = line /\ d.Type = OpInsert}) = 1
            => \A w \in Writers(line) :
                  (\A o \in Writers(line) \ {w} : KeyBefore(o, w))
                      => Live(rga)[i].Content = w.Content

VisitKey(e) == <<e.Lamport, e.NodeID, e.LineID>>

\* C9: Visit order. Materialize and GetLineIDs visit exactly the lines whose
\* Insert was applied and that no Delete tombstoned, in ascending
\* (lamport, node) order of the Inserts, equal lamports by NodeID.
C9_VisitOrder ==
    /\ \A i, j \in 1..Len(Live(rga)) : i < j => KeyBefore(Live(rga)[i], Live(rga)[j])
    /\ {VisitKey(Live(rga)[i]) : i \in 1..Len(Live(rga))}
         = {VisitKey(d) : d \in {x \in delivered :
               /\ x.Type = OpInsert
               /\ ~\E y \in delivered : y.Type = OpDelete /\ y.LineID = x.LineID}}
    /\ Len(Materialize(rga)) = Len(Live(rga))
    /\ \A i \in 1..Len(Live(rga)) : GetLineIDs(rga)[i] = Live(rga)[i].LineID

\* S1: inserts at (1, A), (2, A) and (2, B) with NodeID B < A, visited x, z, y.
C9_Witness ==
    /\ {<<d.Type, d.Lamport, d.NodeID, d.LineID>> : d \in delivered}
         = {<<OpInsert, 1, 2, 1>>, <<OpInsert, 2, 2, 2>>, <<OpInsert, 2, 1, 3>>}
    /\ GetLineIDs(rga) = <<1, 3, 2>>

\* C10: an Update whose LineID has no entry fails, and leaves the op list,
\* the tombstone set and Materialize() as they were.
C10_UpdateUnknownLine ==
    \A op \in OpUniverse :
        (op.Type = OpUpdate /\ ~HasEntry(rga, op.LineID))
            => /\ Apply(rga, op) # {}
               /\ \A out \in Apply(rga, op) :
                     /\ out.err = ErrUnknownLine
                     /\ out.rga.ops = rga.ops
                     /\ out.rga.tombstone = rga.tombstone
                     /\ Materialize(out.rga) = Materialize(rga)

\* A failed Update has been applied to an RGA that holds lines and tombstones.
C10_Witness ==
    /\ err = ErrUnknownLine
    /\ Len(rga.ops) > 0
    /\ rga.tombstone # {}

(***************************************************************************)
(* The repository: the op logs .evo/ops/<stream>/<fileID>.bin and the      *)
(* commit records .evo/commits/<stream>/<commitID>.bin.                    *)
(*                                                                         *)
(* Every handler below reads the repository first and writes afterwards.   *)
(* Its writes, in the order the code issues them, are its list of effects: *)
(* a call that returns has applied all of them, a call whose process is    *)
(* killed has applied a prefix of them.                                    *)
(***************************************************************************)
MaxCalls == 4
Tick == 4
DiskFiles == {<<"">>, <<"a">>, <<"b">>, <<"a", "b">>}

\* types.ExtendedOp and types.Commit; format is the layout of the record on
\* disk: "json" is the bare JSON of SaveCommit, "framed" the 4-byte length
\* and JSON of SaveCommitFile.  Neither reader accepts the other layout.
ExtendedOp(op, old) == [Op |-> op, OldContent |-> old]
Commit(id, stream, message, ts, eops, format) ==
    [ID |-> id, Stream |-> stream, Message |-> message, AuthorName |-> "u",
     Timestamp |-> ts, Operations |-> eops, format |-> format]

NoOp == Operation(OpInsert, 0, ZeroUUID, ZeroUUID, ZeroUUID, "", "", 0)
NoCommit == Commit(ZeroUUID, "", <<>>, 0, <<>>, "")
AppendEffect(s, op) ==
    [kind |-> "AppendOp", stream |-> s, op |-> op, commit |-> NoCommit]
SaveEffect(c) ==
    [kind |-> "SaveCommit", stream |-> c.Stream, op |-> NoOp, commit |-> c]

ApplyEffect(repo, e) ==
    IF e.kind = "AppendOp"
    THEN [repo EXCEPT !.ops[e.stream][e.op.FileID] = Append(@, Persisted(e.op))]
    ELSE [repo EXCEPT !.commits[e.stream] =
                          {c \in @ : c.ID # e.commit.ID} \cup {e.commit}]

RECURSIVE ApplyEffects(_, _, _)
ApplyEffects(repo, effects, k) ==
    IF k = 0 THEN repo
    ELSE ApplyEffect(ApplyEffects(repo, effects, k - 1), effects[k])

Repo == [ops |-> opsLog, commits |-> commitDir]

\* What a handler hands back: its effects, its error, the ids it drew from
\* uuid.New(), whether it read the clock, and the commit it created.
Outcome(call, source, s, commit, effects, e, ids, timed, new) ==
    [call |-> call, source |-> source, stream |-> s, commit |-> commit, effects |-> effects,
     err |-> e, ids |-> ids, timed |-> timed, new |-> new]

\* The handler returns.
Returns(out) ==
    /\ lastCall.n < MaxCalls
    /\ LET repo == ApplyEffects(Repo, out.effects, Len(out.effects))
       IN /\ opsLog' = repo.ops
          /\ commitDir' = repo.commits
    /\ clock' = IF out.timed THEN clock + Tick ELSE clock
    /\ nextID' = nextID + out.ids
    /\ lastCall' = [n |-> lastCall.n + 1, call |-> out.call,
                    source |-> out.source, stream |-> out.stream,
                    commit |-> out.commit, new |-> out.new, err |-> out.err,
                    done |-> TRUE]
    /\ UNCHANGED <<rgaVars, logVars, concVars>>

\* The process is killed between two writes of the handler.
Killed(out) ==
    /\ lastCall.n < MaxCalls
    /\ \E k \in 1..(Len(out.effects) - 1) :
        LET repo == ApplyEffects(Repo, out.effects, k)
        IN /\ opsLog' = repo.ops
           /\ commitDir' = repo.commits
    /\ clock' = IF out.timed THEN clock + Tick ELSE clock
    /\ nextID' = nextID + out.ids
    /\ lastCall' = [n |-> lastCall.n + 1, call |-> out.call,
                    source |-> out.source, stream |-> out.stream,
                    commit |-> out.commit, new |-> out.new, err |-> out.err,
                    done |-> FALSE]
    /\ UNCHANGED <<rgaVars, logVars, concVars>>

(***************************************************************************)
(* internal/ops: processFile, the ingestion of one tracked file            *)
(***************************************************************************)
ErrApplying == "applying operation"

Min(a, b) == IF a < b THEN a ELSE b

\* the k-th smallest member of a set of numbers
Ascending(K) ==
    [i \in 1..Cardinality(K) |->
        CHOOSE k \in K : Cardinality({j \in K : j < k}) = i - 1]

\* the replay of processFile: the first Apply that fails ends the call
RECURSIVE ReplayStrict(_, _)
ReplayStrict(r, ops) ==
    IF ops = <<>> THEN [rga |-> r, err |-> ErrNil]
    ELSE LET out == CHOOSE o \in Apply(r, Head(ops)) : TRUE
         IN IF out.err # ErrNil THEN [rga |-> r, err |-> ErrApplying]
            ELSE ReplayStrict(out.rga, Tail(ops))

CommonPrefix(docLines, diskLines, minLen) ==
    CHOOSE p \in 0..minLen :
        /\ \A i \in 1..p : docLines[i] = diskLines[i]
        /\ p < minLen => docLines[p + 1] # diskLines[p + 1]

CommonSuffix(docLines, diskLines, limit) ==
    CHOOSE q \in 0..limit :
        /\ \A i \in 0..(q - 1) :
               docLines[Len(docLines) - i] = diskLines[Len(diskLines) - i]
        /\ q < limit => docLines[Len(docLines) - q] # diskLines[Len(diskLines) - q]

processFile(s, f, diskLines) ==
    LET built == ReplayStrict(NewRGA, opsLog[s][f])
        doc == built.rga
        docLines == Materialize(doc)
        lamport == clock
        nodeID == nextID
        lineIDs == GetLineIDs(doc)
        minLen == Min(Len(docLines), Len(diskLines))
        prefix == CommonPrefix(docLines, diskLines, minLen)
        suffix == CommonSuffix(docLines, diskLines, minLen - prefix)
        docMid == SubSeq(docLines, prefix + 1, Len(docLines) - suffix)
        diskMid == SubSeq(diskLines, prefix + 1, Len(diskLines) - suffix)
        both == Min(Len(docMid), Len(diskMid))
        differ == Ascending({i \in 1..both : docMid[i] # diskMid[i]})
        updates ==
            [k \in 1..Len(differ) |->
                Operation(OpUpdate, lamport + (differ[k] - 1), nodeID, f,
                          lineIDs[prefix + differ[k]], diskMid[differ[k]], s, clock)]
        deletes ==
            [k \in 1..(IF Len(docMid) > Len(diskMid)
                       THEN Len(docMid) - Len(diskMid) ELSE 0) |->
                Operation(OpDelete, lamport + (Len(diskMid) + k - 1), nodeID, f,
                          lineIDs[prefix + Len(diskMid) + k], "", s, clock)]
        \* the k-th insert runs with j = both + k - 1 after k - 1 increments
        \* of lamport; its NodeID and LineID are two fresh uuids
        inserts ==
            [k \in 1..(Len(diskMid) - both) |->
                Operation(OpInsert, (lamport + (k - 1)) + (both + k - 1),
                          nextID + 2 * k - 1, f, nextID + 2 * k,
                          diskMid[both + k], "", 0)]
        written == updates \o deletes \o inserts
    IN IF built.err # ErrNil
       THEN Outcome("processFile", "", s, ZeroUUID, <<>>, built.err, 0, FALSE, ZeroUUID)
       ELSE IF docLines = diskLines
       THEN Outcome("processFile", "", s, ZeroUUID, <<>>, ErrNil, 0, FALSE, ZeroUUID)
       ELSE Outcome("processFile", "", s, ZeroUUID,
                    [k \in 1..Len(written) |-> AppendEffect(s, written[k])],
                    ErrNil, 1 + 2 * Len(inserts), TRUE, ZeroUUID)

(***************************************************************************)
(* internal/commits: CreateCommit, SaveCommit, SaveCommitFile, LoadCommit, *)
(* invertOps, RevertCommit                                                 *)
(***************************************************************************)
ErrLoadCommit == "failed to load commit"
ErrInvertOps == "failed to invert operations"

\* A commit message: its text and the commit id that RevertCommit formats
\* into it.
Message(text, ref) == [text |-> text, ref |-> ref]

opKey(op) == <<op.Lamport, op.NodeID, op.LineID>>

CommittedKeys(s) ==
    UNION {{opKey(c.Operations[i].Op) : i \in 1..Len(c.Operations)} : c \in commitDir[s]}

\* The ops argument of CreateCommit and the Operations of a commit handed to
\* SaveCommitFile are the caller's.  The callers modelled here hand over the
\* ops of the stream's log of a file that no commit of the stream lists yet,
\* in log order, each with the content its line had before it.
OldContentAt(log, k) ==
    LET lines == LineMap(ReplayOn(NewRGA, SubSeq(log, 1, k - 1)))
    IN IF log[k].Type # OpInsert /\ log[k].LineID \in DOMAIN lines
       THEN lines[log[k].LineID] ELSE ""

CallerOps(s, f) ==
    LET log == opsLog[s][f]
        fresh == Ascending({k \in 1..Len(log) : opKey(log[k]) \notin CommittedKeys(s)})
    IN [i \in 1..Len(fresh) |-> ExtendedOp(log[fresh[i]], OldContentAt(log, fresh[i]))]

CreateCommit(s, eops) ==
    Outcome("CreateCommit", "", s, ZeroUUID,
            <<SaveEffect(Commit(nextID, s, Message(<<"m">>, ZeroUUID), clock, eops, "json"))>>,
            ErrNil, 1, TRUE, nextID)

SaveCommitFile(s, eops) ==
    Outcome("SaveCommitFile", "", s, ZeroUUID,
            <<SaveEffect(Commit(nextID, s, Message(<<"m">>, ZeroUUID), clock, eops, "framed"))>>,
            ErrNil, 1, TRUE, nextID)

\* LoadCommit unmarshals the whole file as JSON
CanLoadCommit(s, id) == \E c \in commitDir[s] : c.ID = id /\ c.format = "json"
LoadCommit(s, id) == CHOOSE c \in commitDir[s] : c.ID = id /\ c.format = "json"

Invertible(eop) ==
    CASE eop.Op.Type = OpDelete -> eop.Op.Content # ""
      [] eop.Op.Type = OpUpdate -> eop.OldContent # ""
      [] OTHER -> TRUE

InvertOne(eop) ==
    CASE eop.Op.Type = OpInsert ->
            ExtendedOp(Operation(OpDelete, 0, ZeroUUID, ZeroUUID, eop.Op.LineID,
                                 "", "", clock), "")
      [] eop.Op.Type = OpDelete ->
            ExtendedOp(Operation(OpInsert, 0, ZeroUUID, ZeroUUID, eop.Op.LineID,
                                 eop.Op.Content, "", clock), "")
      [] OTHER ->
            ExtendedOp(Operation(OpUpdate, 0, ZeroUUID, ZeroUUID, eop.Op.LineID,
                                 eop.OldContent, "", clock), eop.Op.Content)

\* invertOps leaving out the ops it cannot invert instead of failing
invertOpsSkipping(eops) ==
    LET kept == SelectSeq(eops, Invertible)
    IN [ops |-> [i \in 1..Len(kept) |-> InvertOne(kept[Len(kept) + 1 - i])],
        err |-> ErrNil]

invertOps(eops) ==
    IF \E i \in 1..Len(eops) : ~Invertible(eops[i])
    THEN [ops |-> <<>>, err |-> ErrInvertOps]
    ELSE [ops |-> [i \in 1..Len(eops) |-> InvertOne(eops[Len(eops) + 1 - i])],
          err |-> ErrNil]

RevertCommit(s, id) ==
    IF ~CanLoadCommit(s, id)
    THEN Outcome("RevertCommit", "", s, id, <<>>, ErrLoadCommit, 0, FALSE, ZeroUUID)
    ELSE LET target == LoadCommit(s, id)
             inverted == invertOps(target.Operations)
             revert == Commit(nextID, s, Message(<<"Revert commit">>, id), clock,
                              inverted.ops, "json")
         IN IF inverted.err # ErrNil
            THEN Outcome("RevertCommit", "", s, id, <<>>, inverted.err, 0, FALSE, ZeroUUID)
            ELSE Outcome("RevertCommit", "", s, id, <<SaveEffect(revert)>>, ErrNil,
                         1, TRUE, nextID)

(***************************************************************************)
(* internal/streams: ListCommits, MergeStreams, replicateOps, CherryPick,  *)
(* PartialMerge, shouldIncludeOp                                           *)
(***************************************************************************)
ErrListCommits == "invalid commit record"
ErrCommitNotFound == "commit not found in any stream"

RECURSIVE Flatten(_)
Flatten(ss) == IF ss = <<>> THEN <<>> ELSE Head(ss) \o Flatten(Tail(ss))

\* loadCommit reads a 4-byte length and that much JSON: a record written by
\* SaveCommit does not load, and ListCommits gives up on the first such file
CanListCommits(s) == \A c \in commitDir[s] : c.format = "framed"

\* the orders sort.Slice can leave the commits of a set in
RECURSIVE ByTimestamp(_)
ByTimestamp(cs) ==
    IF cs = {} THEN {<<>>}
    ELSE UNION {{<<c>> \o t : t \in ByTimestamp(cs \ {c})} :
                   c \in {x \in cs : \A y \in cs : x.Timestamp <= y.Timestamp}}

ListCommits(s) == IF CanListCommits(s) THEN ByTimestamp(commitDir[s]) ELSE {<<>>}

ListStreams == <<"feature", "main">>

\* a replication that writes each op into the log of every stream
replicateOpsAllStreams(s, eops) ==
    Flatten([i \in 1..Len(eops) |->
                [k \in 1..Len(ListStreams) |-> AppendEffect(ListStreams[k], eops[i].Op)]])

replicateOps(s, eops) == [i \in 1..Len(eops) |-> AppendEffect(s, eops[i].Op)]

MergeStreams(source, target, srcCommits) ==
    LET tgtMap == {c.ID : c \in commitDir[target]}
        missing == SelectSeq(srcCommits, LAMBDA sc : sc.ID \notin tgtMap)
    IN IF ~CanListCommits(source) \/ ~CanListCommits(target)
       THEN Outcome("MergeStreams", source, target, ZeroUUID, <<>>, ErrListCommits, 0, FALSE, ZeroUUID)
       ELSE Outcome("MergeStreams", source, target, ZeroUUID,
                    Flatten([i \in 1..Len(missing) |->
                        replicateOps(target, missing[i].Operations)
                        \o <<SaveEffect([missing[i] EXCEPT !.Stream = target])>>]),
                    ErrNil, 0, FALSE, ZeroUUID)

Holders(commitID) ==
    SelectSeq(ListStreams,
              LAMBDA s : CanListCommits(s) /\ \E c \in commitDir[s] : c.ID = commitID)

CherryPick(commitID, target) ==
    IF Holders(commitID) = <<>>
    THEN Outcome("CherryPick", "", target, commitID, <<>>, ErrCommitNotFound, 0, FALSE, ZeroUUID)
    ELSE LET found == CHOOSE c \in commitDir[Head(Holders(commitID))] : c.ID = commitID
             nc == [found EXCEPT !.ID = nextID, !.Stream = target,
                                 !.Message.text = <<"[cherry-pick] ">> \o @]
         IN Outcome("CherryPick", "", target, commitID,
                    replicateOps(target, found.Operations) \o <<SaveEffect(nc)>>,
                    ErrNil, 1, FALSE, nextID)

MergeFilter(fileIDs, opTypes) == [FileIDs |-> fileIDs, OpTypes |-> opTypes]

shouldIncludeOp(eop, filter) ==
    IF filter.FileIDs = {} /\ filter.OpTypes = {} THEN TRUE
    ELSE /\ filter.FileIDs # {} => eop.Op.FileID \in filter.FileIDs
         /\ filter.OpTypes # {} => eop.Op.Type \in filter.OpTypes

Retarget(eops, target) ==
    [i \in 1..Len(eops) |-> [eops[i] EXCEPT !.Op.Stream = target]]

MergeCommit(sc, target, eops) ==
    [Commit(sc.ID, target, Message(<<"[merge] ">> \o sc.Message.text, sc.Message.ref),
            sc.Timestamp, eops, "framed") EXCEPT !.AuthorName = ""]

PartialMerge(source, target, filter, srcCommits) ==
    LET allOps == Flatten([i \in 1..Len(srcCommits) |->
                              Retarget(srcCommits[i].Operations, target)])
        filteredOps(sc) ==
            Retarget(SelectSeq(sc.Operations, LAMBDA eop : shouldIncludeOp(eop, filter)),
                     target)
    IN IF ~CanListCommits(source) \/ ~CanListCommits(target)
       THEN Outcome("PartialMerge", source, target, ZeroUUID, <<>>, ErrListCommits, 0, FALSE, ZeroUUID)
       ELSE IF filter.FileIDs = {} /\ filter.OpTypes = {}
       THEN Outcome("PartialMerge", source, target, ZeroUUID,
                    IF allOps # <<>>
                    THEN <<SaveEffect(MergeCommit(srcCommits[Len(srcCommits)], target, allOps))>>
                         \o replicateOps(target, allOps)
                    ELSE <<>>,
                    ErrNil, 0, FALSE, ZeroUUID)
       ELSE Outcome("PartialMerge", source, target, ZeroUUID,
                    Flatten([i \in 1..Len(srcCommits) |->
                        IF filteredOps(srcCommits[i]) = <<>> THEN <<>>
                        ELSE <<SaveEffect(MergeCommit(srcCommits[i], target,
                                                      filteredOps(srcCommits[i])))>>
                             \o replicateOps(target, filteredOps(srcCommits[i]))]),
                    ErrNil, 0, FALSE, ZeroUUID)

(***************************************************************************)
(* internal/crdt/compact: the compaction service.  Its two passes read     *)
(* every .bin file under .evo/ops/<stream> as one operation: a 4-byte      *)
(* big-endian length followed by that much JSON.                           *)
(***************************************************************************)
DefaultMaxOps == 10000

RECURSIVE FileBytes(_)
FileBytes(log) == IF log = <<>> THEN <<>> ELSE WriteOp(Head(log)) \o FileBytes(Tail(log))

\* binary.BigEndian.Uint32(data[:4]); a first digit other than 0 makes it at
\* least 256^3, more than any file of the model holds
SizePrefix(data) ==
    IF data[1] # 0 THEN 16777216 ELSE data[2] * 65536 + data[3] * 256 + data[4]

\* json.Unmarshal into a crdt.Operation takes a JSON object only: it fails
\* on empty input and on input whose first byte is not '{' or white space
Unmarshals(opData) ==
    /\ opData # <<>>
    /\ opData[1] \in {123, 32, 9, 10, 13}

\* the file passes the three tests before ops = append(ops, op)
ServiceReads(data) ==
    /\ Len(data) >= 4
    /\ Len(data) >= 4 + SizePrefix(data)
    /\ Unmarshals(SubSeq(data, 5, 4 + SizePrefix(data)))

ReadByService(logs) == {f \in DOMAIN logs : logs[f] # <<>> /\ ServiceReads(FileBytes(logs[f]))}

\* CompactionService.CompactOperations: a stream with fewer ops read than
\* MaxOps is skipped.
serviceCompactOperations(logs) ==
    [s \in DOMAIN logs |->
        IF Cardinality(ReadByService(logs[s])) < DefaultMaxOps
        THEN logs[s]
        ELSE [f \in DOMAIN logs[s] |-> IF f \in ReadByService(logs[s]) THEN logs[s][f] ELSE <<>>]]

\* CompactionService.PruneTombstones: the last loop removes every .bin file
\* that is not named after the LineID of an op that was read.
PruneTombstones(logs) ==
    [s \in DOMAIN logs |->
        [f \in DOMAIN logs[s] |-> IF f \in ReadByService(logs[s]) THEN logs[s][f] ELSE <<>>]]

(***************************************************************************)
(* The calls on one repository.                                            *)
(***************************************************************************)
MergeFilters == {MergeFilter({}, {}), MergeFilter({TheFile}, {}), MergeFilter({}, {OpUpdate})}

CommitIDs == UNION {{c.ID : c \in commitDir[s]} : s \in Streams}

IngestCalls == {processFile(s, TheFile, d) : s \in Streams, d \in DiskFiles}
CommitCalls == {CreateCommit(s, eops) : s \in Streams, eops \in {<<>>}}
               \cup {CreateCommit(s, CallerOps(s, TheFile)) : s \in Streams}
SaveCalls == {SaveCommitFile(s, CallerOps(s, TheFile)) : s \in Streams}
RevertCalls == UNION {{RevertCommit(s, c.ID) : c \in commitDir[s]} : s \in Streams}
StreamPairs == {p \in Streams \X Streams : p[1] # p[2]}
MergeCalls ==
    UNION {{MergeStreams(p[1], p[2], cc) : cc \in ListCommits(p[1])} : p \in StreamPairs}
\* the id of a commit of some stream, or an id that no commit has
PickCalls == {CherryPick(id, t) : id \in CommitIDs \cup {nextID}, t \in Streams}
PartialCalls ==
    UNION {{PartialMerge(p[1], p[2], filter, cc) : cc \in ListCommits(p[1])} :
              p \in StreamPairs, filter \in MergeFilters}

Ingest == \E out \in IngestCalls : Returns(out)
Commits == \E out \in CommitCalls : Returns(out)
Saves == \E out \in SaveCalls : Returns(out)
Reverts == \E out \in RevertCalls : Returns(out)
Merges == \E out \in MergeCalls : Returns(out)
Picks == \E out \in PickCalls : Returns(out)
Partials == \E out \in PartialCalls : Returns(out)
KilledMidCall ==
    \E out \in IngestCalls \cup MergeCalls \cup PickCalls \cup PartialCalls : Killed(out)

\* one tick of the service: CompactOperations, then PruneTombstones
CompactionCycle ==
    /\ lastCall.n < MaxCalls
    /\ opsLog' = PruneTombstones(serviceCompactOperations(opsLog))
    /\ lastCall' = [n |-> lastCall.n + 1, call |-> "CompactionCycle", source |-> "", stream |-> "",
                    commit |-> ZeroUUID, new |-> ZeroUUID, err |-> ErrNil, done |-> TRUE]
    /\ UNCHANGED <<commitDir, clock, nextID, rgaVars, logVars, concVars>>

Init == RGAIdle /\ LogIdle /\ RepoIdle /\ ConcIdle

Next ==
    \/ Ingest
    \/ Commits
    \/ Saves
    \/ Reverts
    \/ Merges
    \/ Picks
    \/ Partials
    \/ KilledMidCall
    \/ CompactionCycle

Spec == Init /\ [][Next]_vars

(***************************************************************************)
(* Properties of the repository.                                           *)
(***************************************************************************)
Document(log) == Materialize(ReplayOn(NewRGA, log))

\* C2: a compaction cycle (CompactOperations, then PruneTombstones) leaves
\* the document that the op log of every (stream, file) materializes as it
\* was before the cycle.
C2_CompactionPreservesDocument ==
    [][(lastCall'.call = "CompactionCycle" /\ lastCall'.n # lastCall.n)
        => \A s \in Streams : \A f \in RepoFiles :
              Document(opsLog'[s][f]) = Document(opsLog[s][f])]_vars

\* The commit a stream holds under an id.
CommitOf(s, id) == CHOOSE c \in commitDir[s] : c.ID = id
PersistedOps(c) == {Persisted(c.Operations[i].Op) : i \in 1..Len(c.Operations)}
KeysOf(c) == {opKey(c.Operations[i].Op) : i \in 1..Len(c.Operations)}
FirstOf(log, c) ==
    CHOOSE k \in 1..Len(log) :
        /\ opKey(log[k]) \in KeysOf(c)
        /\ \A j \in 1..(k - 1) : opKey(log[j]) \notin KeysOf(c)

\* RevertCommit(s, C) has just returned the revert commit R, and in the log
\* of f the ops of C are followed by nothing but ops of C and of R.
RevertedLast(s, f) ==
    /\ lastCall.call = "RevertCommit" /\ lastCall.err = ErrNil /\ lastCall.stream = s
    /\ LET C == CommitOf(s, lastCall.commit)
           R == CommitOf(s, lastCall.new)
           log == opsLog[s][f]
       IN /\ \E i \in 1..Len(C.Operations) : C.Operations[i].Op.FileID = f
          /\ \E k \in 1..Len(log) : opKey(log[k]) \in KeysOf(C)
          /\ \A k \in FirstOf(log, C)..Len(log) :
                opKey(log[k]) \in KeysOf(C) \/ log[k] \in PersistedOps(R)

\* C3: after RevertCommit(S, C) the replay of S's op log gives, for every
\* file C touched, the document it gave immediately before C's ops.
C3_RevertRoundTrip ==
    \A s \in Streams : \A f \in RepoFiles :
        RevertedLast(s, f) =>
            Document(opsLog[s][f]) =
                Document(SubSeq(opsLog[s][f], 1,
                                FirstOf(opsLog[s][f], CommitOf(s, lastCall.commit)) - 1))

InLog(s, op) ==
    \E f \in RepoFiles : \E k \in 1..Len(opsLog[s][f]) : opsLog[s][f][k] = Persisted(op)

\* C6: in every state, every op that a commit record of a stream lists is
\* in the op log of that stream.
C6_CommitAfterOps ==
    \A s \in Streams : \A c \in commitDir[s] :
        \A i \in 1..Len(c.Operations) : InLog(s, c.Operations[i].Op)

\* The call that has just returned repeats the call before it, and both
\* returned without error.
SecondRun(call) ==
    /\ lastCall.call = call /\ lastCall.done /\ lastCall.err = ErrNil
    /\ lastCall'.n = lastCall.n + 1
    /\ lastCall'.call = call /\ lastCall'.done /\ lastCall'.err = ErrNil
    /\ lastCall'.source = lastCall.source
    /\ lastCall'.stream = lastCall.stream
    /\ lastCall'.commit = lastCall.commit

\* C7: a second CherryPick(C, T) or MergeStreams(S, T) appends no op to any
\* log and creates no commit record.
C7_SecondRunIdempotent ==
    [][(SecondRun("CherryPick") \/ SecondRun("MergeStreams"))
        => (opsLog' = opsLog /\ commitDir' = commitDir)]_vars

(***************************************************************************)
(* Re-delivery to the RGA.                                                 *)
(***************************************************************************)
\* C11: applying to the RGA an op that was already applied, byte for byte
\* the same, leaves Materialize() as it is; a second delivery of an Insert
\* adds no second copy of the line.
C11_RedeliveryIdempotent ==
    \A d \in delivered : \A out \in Apply(rga, d) :
        Materialize(out.rga) = Materialize(rga)

(***************************************************************************)
(* internal/ops: two threads of one process inside AppendOp on the same    *)
(* log file.  AppendOp takes no lock; the file is opened with O_APPEND, so *)
(* each Write of WriteOp lands whole at the end of the file as it then is. *)
(***************************************************************************)
InFlight == {t \in Threads : writers[t].pc # "idle"}

\* MkdirAll and OpenFile
AppendOpEnter(t, op) ==
    /\ writers[t].pc = "idle"
    /\ Len(appended) + Cardinality(InFlight) < MaxRecords
    /\ writers' = [writers EXCEPT ![t] = [pc |-> "header", op |-> op]]
    /\ UNCHANGED <<logVars, rgaVars, repoVars, cycle, reader, service, store>>

\* w.Write(buf); WriteOp returns here when the content is empty
WriteHeader(t) ==
    /\ writers[t].pc = "header"
    /\ logFile' = logFile \o SubSeq(WriteOp(writers[t].op), 1, HeaderSize)
    /\ IF Len(Bytes(writers[t].op.Content)) > 0
       THEN /\ writers' = [writers EXCEPT ![t].pc = "content"]
            /\ UNCHANGED appended
       ELSE /\ writers' = [writers EXCEPT ![t] = [pc |-> "idle", op |-> <<>>]]
            /\ appended' = Append(appended, writers[t].op)
    /\ UNCHANGED <<tail, loaded, rgaVars, repoVars, cycle, reader, service, store>>

\* w.Write(contentBytes), and AppendOp returns
WriteContent(t) ==
    /\ writers[t].pc = "content"
    /\ logFile' = logFile \o Bytes(writers[t].op.Content)
    /\ writers' = [writers EXCEPT ![t] = [pc |-> "idle", op |-> <<>>]]
    /\ appended' = Append(appended, writers[t].op)
    /\ UNCHANGED <<tail, loaded, rgaVars, repoVars, cycle, reader, service, store>>

\* LoadAllOps once every AppendOp has returned
LoadAfterAppends ==
    /\ InFlight = {}
    /\ loaded' = LoadAllOps(logFile)
    /\ UNCHANGED <<logFile, appended, tail, rgaVars, repoVars, concVars>>

AppendEnters == \E t \in Threads : \E op \in LogOps : AppendOpEnter(t, op)
HeaderWrites == \E t \in Threads : WriteHeader(t)
ContentWrites == \E t \in Threads : WriteContent(t)

InitAppend == RGAIdle /\ LogIdle /\ RepoIdle /\ ConcIdle

NextAppend == AppendEnters \/ HeaderWrites \/ ContentWrites \/ LoadAfterAppends

SpecAppend == InitAppend /\ [][NextAppend]_vars

RECURSIVE Orders(_)
Orders(s) ==
    IF s = <<>> THEN {<<>>}
    ELSE UNION {{<<s[i]>> \o t : t \in Orders(RemoveAt(s, i))} : i \in 1..Len(s)}

\* C12: once the concurrent AppendOp calls on one log file have returned,
\* the file is the records of the appended ops one after the other, in some
\* order, none interleaved with another, and LoadAllOps returns all of them.
C12_AppendsSerialized ==
    InFlight = {} =>
        \E p \in Orders(appended) :
            /\ logFile = FileBytes(p)
            /\ LoadAllOps(logFile) = [ops |-> PersistedAll(p), err |-> ErrNil]

(***************************************************************************)
(* internal/crdt/compact: one tick of the service, write by write, next to *)
(* a reader that calls LoadAllOps and to the ingestion of files.  The      *)
(* service holds its own mutex only; LoadAllOps and AppendOp take no lock. *)
(***************************************************************************)
\* the tick starts: CompactOperations skips every stream it read fewer than
\* MaxOps ops from, and PruneTombstones lists the stream directories
CycleBegin ==
    /\ cycle.pc = "idle"
    /\ \A s \in Streams : Cardinality(ReadByService(opsLog[s])) < DefaultMaxOps
    /\ cycle' = [pc |-> "prune", streams |-> ListStreams, stream |-> "", files |-> <<>>,
                 had |-> {sf \in Streams \X RepoFiles : opsLog[sf[1]][sf[2]] # <<>>}]
    /\ UNCHANGED <<rgaVars, logVars, repoVars, writers, reader, service, store>>

\* PruneTombstones enters the next stream: it lists the .bin files and reads
\* them; the files it read no op from are the ones its last loop removes
CycleVisit ==
    /\ cycle.pc = "prune" /\ cycle.files = <<>> /\ cycle.streams # <<>>
    /\ LET s == Head(cycle.streams)
       IN cycle' = [cycle EXCEPT !.streams = Tail(@), !.stream = s,
                        !.files = Ascending({f \in RepoFiles :
                                      opsLog[s][f] # <<>> /\ f \notin ReadByService(opsLog[s])})]
    /\ UNCHANGED <<rgaVars, logVars, repoVars, writers, reader, service, store>>

\* os.Remove of one file in the last loop of PruneTombstones
CycleRemove ==
    /\ cycle.pc = "prune" /\ cycle.files # <<>>
    /\ opsLog' = [opsLog EXCEPT ![cycle.stream][Head(cycle.files)] = <<>>]
    /\ cycle' = [cycle EXCEPT !.files = Tail(@)]
    /\ UNCHANGED <<commitDir, clock, nextID, lastCall, rgaVars, logVars, writers, reader, service, store>>

\* PruneTombstones returns
CycleEnd ==
    /\ cycle.pc = "prune" /\ cycle.files = <<>> /\ cycle.streams = <<>>
    /\ cycle' = [pc |-> "idle", streams |-> <<>>, stream |-> "", files |-> <<>>, had |-> {}]
    /\ UNCHANGED <<rgaVars, logVars, repoVars, writers, reader, service, store>>

\* LoadAllOps(filename) by a reader: a file that does not exist loads as no
\* ops and no error
ReaderLoad(s, f) ==
    /\ reader' = [stream |-> s, file |-> f,
                  during |-> cycle.pc # "idle" /\ <<s, f>> \in cycle.had,
                  ops |-> LoadAllOps(FileBytes(opsLog[s][f])).ops,
                  err |-> LoadAllOps(FileBytes(opsLog[s][f])).err]
    /\ UNCHANGED <<rgaVars, logVars, repoVars, writers, cycle, service, store>>

ReaderLoads == \E s \in Streams : ReaderLoad(s, TheFile)

\* processFile, at any moment of the tick
MaxIngests == 2
IngestNextToCycle == lastCall.n < MaxIngests /\ Ingest

InitCycle == RGAIdle /\ LogIdle /\ RepoIdle /\ ConcIdle

NextCycle == IngestNextToCycle \/ CycleBegin \/ CycleVisit \/ CycleRemove \/ CycleEnd \/ ReaderLoads

SpecCycle == InitCycle /\ [][NextCycle]_vars

\* C13: a LoadAllOps of a log file made while a compaction cycle runs
\* returns a complete op sequence of that file, from before or from after
\* the compaction: for a log that held ops when the cycle began, never an
\* empty or missing log.
C13_ReaderDuringCompaction ==
    reader.during => (reader.err = ErrNil /\ reader.ops # <<>>)

(***************************************************************************)
(* Properties of the compaction of a repository.                           *)
(***************************************************************************)
OpsIn(log) == {log[k] : k \in 1..Len(log)}

\* C14: a compaction cycle drops a Delete from a stream's op log only if a
\* commit of that stream lists the Delete.
C14_UncommittedDeleteKept ==
    [][(lastCall'.call = "CompactionCycle" /\ lastCall'.n # lastCall.n)
        => \A s \in Streams : \A f \in RepoFiles : \A op \in OpsIn(opsLog[s][f]) :
              (op.Type = OpDelete /\ opKey(op) \notin CommittedKeys(s))
                  => op \in OpsIn(opsLog'[s][f])]_vars

(***************************************************************************)
(* Properties of the commit records.                                       *)
(***************************************************************************)
\* C15: a commit record that a stream holds stays in that stream, with the
\* same content, whatever is called next.
C15_CommitsImmutable ==
    [][\A s \in Streams : \A c \in commitDir[s] : c \in commitDir'[s]]_vars

(***************************************************************************)
(* Properties of MergeStreams, CherryPick and PartialMerge.                *)
(***************************************************************************)
\* the call that takes the step
Called(call) ==
    /\ lastCall'.n = lastCall.n + 1
    /\ lastCall'.call = call
    /\ lastCall'.done

IDsOf(cs) == {c.ID : c \in cs}

\* what appending the ops of a list of commits, one commit after the other,
\* adds to the log of file f
LogOf(eops, f) ==
    SelectSeq([i \in 1..Len(eops) |-> Persisted(eops[i].Op)], LAMBDA op : op.FileID = f)
OpsOf(cc) == Flatten([i \in 1..Len(cc) |-> cc[i].Operations])

\* C16: after MergeStreams(S, T) every commit of S whose id T did not hold
\* is in T under the same id, with stream T and the same ops; the ops of
\* those commits were appended to T's log commit by commit in ascending
\* order of the commit timestamps; nothing else was added to T.
C16_FullMerge ==
    [][Called("MergeStreams") =>
        LET S == lastCall'.source
            T == lastCall'.stream
            missing == {c \in commitDir[S] : c.ID \notin IDsOf(commitDir[T])}
        IN /\ \A c \in missing : \E c2 \in commitDir'[T] :
                  c2.ID = c.ID /\ c2.Stream = T /\ c2.Operations = c.Operations
           /\ \A c \in commitDir[T] : c \in commitDir'[T]
           /\ IDsOf(commitDir'[T]) = IDsOf(commitDir[T]) \cup IDsOf(missing)
           /\ \E cc \in ByTimestamp(missing) : \A f \in RepoFiles :
                  opsLog'[T][f] = opsLog[T][f] \o LogOf(OpsOf(cc), f)]_vars

AllCommits == UNION {commitDir[s] : s \in Streams}

\* CherryPick(c, T) replicated commit c: T gained one commit with an id no
\* commit had, and c's ops were appended to T's log.
Picked(c, T) ==
    /\ lastCall'.err = ErrNil
    /\ \E nc \in commitDir'[T] :
          /\ commitDir'[T] = commitDir[T] \cup {nc}
          /\ nc.ID \notin IDsOf(AllCommits)
          /\ nc.Stream = T
          /\ nc.Message.text = <<"[cherry-pick] ">> \o c.Message.text
          /\ nc.Operations = c.Operations
    /\ \A f \in RepoFiles : opsLog'[T][f] = opsLog[T][f] \o LogOf(c.Operations, f)
    /\ \A s \in Streams \ {T} : commitDir'[s] = commitDir[s] /\ opsLog'[s] = opsLog[s]

\* C17: CherryPick(c, T) of a commit that some stream holds appends c's ops
\* to T's log and adds to T exactly one commit: fresh id, stream T, message
\* "[cherry-pick] " and the message of c, the ops of c.  If no stream holds
\* c the call fails with "commit not found" and writes nothing.
C17_CherryPick ==
    [][Called("CherryPick") =>
        IF lastCall'.commit \in IDsOf(AllCommits)
        THEN \E c \in AllCommits : c.ID = lastCall'.commit /\ Picked(c, lastCall'.stream)
        ELSE /\ lastCall'.err = ErrCommitNotFound
             /\ commitDir' = commitDir /\ opsLog' = opsLog]_vars


\* an op passes a filter
Passes(eop, filter) ==
    /\ filter.FileIDs = {} \/ eop.Op.FileID \in filter.FileIDs
    /\ filter.OpTypes = {} \/ eop.Op.Type \in filter.OpTypes
Passing(c, filter) == SelectSeq(c.Operations, LAMBDA eop : Passes(eop, filter))
NonEmptyFilters == {filter \in MergeFilters : filter.FileIDs # {} \/ filter.OpTypes # {}}

\* the repository a call leaves when it returns
After(out) == ApplyEffects(Repo, out.effects, Len(out.effects))

\* what the claim asks of PartialMerge(S, T, filter) reading the commits of S
\* in the order cc
PartiallyMerged(S, T, filter, cc) ==
    LET after == After(PartialMerge(S, T, filter, cc))
        passed == {c \in commitDir[S] : Passing(c, filter) # <<>>}
        written == after.commits[T] \ commitDir[T]
    IN /\ \A c \in passed : \E nc \in after.commits[T] :
              /\ nc.ID = c.ID
              /\ nc.Stream = T
              /\ nc.Message.text = <<"[merge] ">> \o c.Message.text
              /\ nc.Operations = Retarget(Passing(c, filter), T)
       /\ IDsOf(written) \subseteq IDsOf(passed)
       /\ \E order \in ByTimestamp(commitDir[S]) : \A f \in RepoFiles :
              after.ops[T][f] = opsLog[T][f] \o
                  LogOf(Flatten([i \in 1..Len(order) |-> Passing(order[i], filter)]), f)

\* C18: PartialMerge with a non-empty filter writes to T, for each commit of
\* S with an op that passes the filter (file in file_ids or file_ids empty,
\* and type in op_types or op_types empty), one commit with exactly the
\* passing ops and the message prefixed "[merge] ", appends exactly those
\* ops to T's log, and writes nothing for a commit with no passing op.
C18_PartialMergeFilter ==
    \A p \in StreamPairs : \A filter \in NonEmptyFilters : \A cc \in ListCommits(p[1]) :
        PartiallyMerged(p[1], p[2], filter, cc)


\* C19: PartialMerge(S, T) with an empty filter leaves what MergeStreams(S, T)
\* leaves: the same commits in T (ids, messages, ops) and the same op logs.
C19_EmptyFilterIsFullMerge ==
    \A p \in StreamPairs : \A cc \in ListCommits(p[1]) :
        After(PartialMerge(p[1], p[2], MergeFilter({}, {}), cc))
            = After(MergeStreams(p[1], p[2], cc))


(***************************************************************************)
(* Properties of invertOps                                                 *)
(***************************************************************************)
\* a Delete or an Update carries the content its line had before it
Preserved(eop) == eop.Op.Type \in {OpDelete, OpUpdate} => eop.OldContent # ""

\* r is the inverse of the op o
InverseOf(r, o) ==
    /\ r.Op.LineID = o.Op.LineID
    /\ CASE o.Op.Type = OpInsert -> r.Op.Type = OpDelete
         [] o.Op.Type = OpDelete -> r.Op.Type = OpInsert /\ r.Op.Content = o.OldContent
         [] OTHER -> /\ r.Op.Type = OpUpdate
                     /\ r.Op.Content = o.OldContent
                     /\ r.OldContent = o.Op.Content

\* C20: RevertCommit of a loaded commit whose Deletes and Updates carry their
\* preserved content saves a revert commit with as many ops as the original,
\* the i-th being the inverse of the i-th op from the end: Insert(L) gives
\* Delete(L), Delete(L) with old content x gives Insert(L, x), Update(L, new)
\* with old content x gives Update(L, x) with old content new.
C20_RevertInverses ==
    [][(Called("RevertCommit") /\ lastCall'.err # ErrLoadCommit) =>
        LET C == LoadCommit(lastCall'.stream, lastCall'.commit)
            n == Len(C.Operations)
        IN (\A i \in 1..n : Preserved(C.Operations[i])) =>
              /\ lastCall'.err = ErrNil
              /\ \E R \in commitDir'[lastCall'.stream] :
                    /\ R.ID = lastCall'.new
                    /\ Len(R.Operations) = n
                    /\ \A i \in 1..n :
                          InverseOf(R.Operations[i], C.Operations[n + 1 - i])]_vars


\* the commit RevertCommit was asked to revert
Reverted == CHOOSE c \in commitDir[lastCall'.stream] : c.ID = lastCall'.commit
Unpreserved(c) == \E i \in 1..Len(c.Operations) : ~Preserved(c.Operations[i])

ErrGather == "invalid operation record"

\* binary.Read(f, binary.LittleEndian, &size) on the first 8 bytes of a log
\* file; a non-zero digit above the third makes it at least 256^3
GatherSize(data) ==
    IF \E k \in 4..8 : data[k] # 0 THEN 16777216
    ELSE data[1] + data[2] * 256 + data[3] * 65536

\* f.Read(data) into make([]byte, size): the bytes the file still has, the
\* rest of the buffer stays zero
GatherData(data) ==
    [k \in 1..GatherSize(data) |-> IF 8 + k <= Len(data) THEN data[8 + k] ELSE 0]

\* the callback of WalkDir reads one op from a file, or fails
GatherReads(data) ==
    /\ Len(data) >= 8
    /\ GatherSize(data) = 0 \/ Len(data) > 8
    /\ Unmarshals(GatherData(data))

\* doc.LineMap() of every file of the stream after all its ops
buildDocStates(s) ==
    [f \in {g \in RepoFiles : opsLog[s][g] # <<>>} |->
        LineMap(ReplayOn(NewRGA, LoadAllOps(FileBytes(opsLog[s][f])).ops))]

\* the range over the map visits the files in any order
findOldContent(ds, lineID) ==
    IF \E f \in DOMAIN ds : lineID \in DOMAIN ds[f]
    THEN {ds[f][lineID] : f \in {g \in DOMAIN ds : lineID \in DOMAIN ds[g]}}
    ELSE {""}

\* the loop over allOps: the ops no commit lists, an Update with the content
\* found in the document states, before the sort
NewEops(s, allOps) ==
    {eop \in UNION {{ExtendedOp(op, old) :
                        old \in IF op.Type = OpUpdate
                                THEN findOldContent(buildDocStates(s), op.LineID)
                                ELSE {""}} : op \in allOps} :
        opKey(eop.Op) \notin CommittedKeys(s)}

gatherNewOps(s) ==
    IF \E c \in commitDir[s] : c.format # "json"
    THEN [ops |-> {}, err |-> ErrLoadCommit]
    ELSE IF \E f \in RepoFiles : opsLog[s][f] # <<>> /\ ~GatherReads(FileBytes(opsLog[s][f]))
    THEN [ops |-> {}, err |-> ErrGather]
    ELSE [ops |-> NewEops(s, {}), err |-> ErrNil]

\* the ops of the logs of stream s that no commit of s lists
Uncommitted(s) ==
    {op \in UNION {OpsIn(opsLog[s][f]) : f \in RepoFiles} : opKey(op) \notin CommittedKeys(s)}

\* the commit CreateCommit(s, no ops) saves
AutoCommit(s) ==
    CHOOSE c \in After(CreateCommit(s, <<>>)).commits[s] : c.ID = nextID

\* C22: a commit created with no requested ops lists exactly the ops of the
\* stream's log that no commit of the stream lists yet, sorted by LessThan.
C22_AutoGather ==
    \A s \in Streams :
        LET eops == AutoCommit(s).Operations
        IN /\ {Persisted(eops[i].Op) : i \in 1..Len(eops)} = Uncommitted(s)
           /\ Len(eops) = Cardinality(Uncommitted(s))
           /\ \A i \in 1..Len(eops) : \A j \in (i + 1)..Len(eops) :
                 ~LessThan(eops[j].Op, eops[i].Op)


\* the content the line of the k-th op of a log had before that op
PreOpContent(s, op) ==
    LET log == opsLog[s][op.FileID]
    IN OldContentAt(log, CHOOSE k \in 1..Len(log) : log[k] = op)

Emitted ==
    UNION {OpsIn(opsLog[s][f]) : s \in Streams, f \in RepoFiles}
        \cup UNION {{Persisted(c.Operations[i].Op) : i \in 1..Len(c.Operations)} :
                       c \in AllCommits}

\* the ops a call of processFile appended, in order
AppendedBy(s, f) == SubSeq(opsLog'[s][f], Len(opsLog[s][f]) + 1, Len(opsLog'[s][f]))

\* the ops of the revert commit a call of RevertCommit saved, in order
InverseOps ==
    LET R == CHOOSE c \in commitDir'[lastCall'.stream] : c.ID = lastCall'.new
    IN [i \in 1..Len(R.Operations) |-> R.Operations[i].Op]

\* every op of the list has a lamport above those of the ops before it in the
\* list and of every op emitted before the call
FreshLamports(ops) ==
    /\ \A i \in 1..Len(ops) : \A old \in Emitted : old.Lamport < ops[i].Lamport
    /\ \A i \in 1..Len(ops) : \A j \in (i + 1)..Len(ops) : ops[i].Lamport < ops[j].Lamport

\* C24: every op the process emits, by processFile or as an inverse op of
\* RevertCommit, has a lamport strictly greater than that of every op it
\* emitted before.
C24_LamportMonotonic ==
    [][/\ Called("processFile") =>
            \A f \in RepoFiles : FreshLamports(AppendedBy(lastCall'.stream, f))
       /\ (Called("RevertCommit") /\ lastCall'.err = ErrNil) => FreshLamports(InverseOps)]_vars


\* C25: in the log of one file in one stream no LineID is the target of
\* more than one Insert.
C25_OneInsertPerLine ==
    \A s \in Streams : \A f \in RepoFiles :
        \A i \in 1..Len(opsLog[s][f]) : \A j \in (i + 1)..Len(opsLog[s][f]) :
            ~ /\ opsLog[s][f][i].Type = OpInsert
              /\ opsLog[s][f][j].Type = OpInsert
              /\ opsLog[s][f][i].LineID = opsLog[s][f][j].LineID


(***************************************************************************)
(* Properties of Delete in the RGA                                         *)
(***************************************************************************)
\* r.GetOperations(): the Operation of every entry of r.ops, in order
GetOperations(r) == r.ops

\* the op the step applied without error
AppliedOp == CHOOSE op \in delivered' : op \notin delivered

\* C26: after Insert(L, c) and then Delete(L), applying a later Insert of the
\* same line L with content c leaves a document of exactly one line, c.
C26_DeleteThenReinsert ==
    [][(/\ Cardinality(delivered) = 2
        /\ delivered' # delivered
        /\ causal
        /\ Len(rga.ops) = 1
        /\ rga.ops[1].LineID \in rga.tombstone
        /\ AppliedOp.Type = OpInsert
        /\ AppliedOp.LineID = rga.ops[1].LineID
        /\ AppliedOp.Content = rga.ops[1].Content
        /\ LessThan(rga.ops[1], AppliedOp))
          => Materialize(rga') = <<AppliedOp.Content>>]_vars

\* C27: after Insert(L, c), applying Delete(L) leaves L out of the
\* materialized document, keeps the Insert entry, and GetOperations lists a
\* Delete of L whose content is c.
C27_DeleteKeepsContent ==
    [][(/\ Cardinality(delivered) = 1
        /\ delivered' # delivered
        /\ Len(rga.ops) = 1
        /\ AppliedOp.Type = OpDelete
        /\ AppliedOp.LineID = rga.ops[1].LineID)
          => /\ Materialize(rga') = <<>>
             /\ rga'.ops = rga.ops
             /\ \E o \in OpsIn(GetOperations(rga')) :
                   /\ o.Type = OpDelete
                   /\ o.LineID = AppliedOp.LineID
                   /\ o.Content = rga.ops[1].Content]_vars


(***************************************************************************)
(* internal/ops: processFile on a file larger than the threshold, and      *)
(* storeLargeFile.  The chunks lfs.Store keeps are not part of the state.  *)
(***************************************************************************)
LargeThreshold == 1000000
LargeSizes == {LargeThreshold + 1, LargeThreshold + 2}

\* fmt.Sprintf("EVO-LFS:%s:%d", fileID, info.Size) for the file of the model
StubLine ==
    (LargeThreshold + 1 :> "EVO-LFS:1:1000001") @@ (LargeThreshold + 2 :> "EVO-LFS:1:1000002")

\* strings.HasPrefix(line, "EVO-LFS:")
HasStubPrefix(line) == \E size \in LargeSizes : line = StubLine[size]

\* processFile with fsize > threshold: the document is built as for any
\* file, then storeLargeFile stores the file and appends the stub line
storeLargeFile(s, f, size) ==
    LET built == ReplayStrict(NewRGA, opsLog[s][f])
        docLines == Materialize(built.rga)
        lop == Operation(OpInsert, clock, nextID, f, nextID + 1, StubLine[size], "", 0)
    IN IF built.err # ErrNil
       THEN Outcome("storeLargeFile", "", s, ZeroUUID, <<>>, built.err, 0, FALSE, ZeroUUID)
       ELSE IF Len(docLines) = 1 /\ HasStubPrefix(docLines[1])
       THEN Outcome("storeLargeFile", "", s, ZeroUUID, <<>>, ErrNil, 0, FALSE, ZeroUUID)
       ELSE Outcome("storeLargeFile", "", s, ZeroUUID, <<AppendEffect(s, lop)>>,
                    ErrNil, 2, TRUE, ZeroUUID)

LargeCalls == {storeLargeFile(s, TheFile, size) : s \in Streams, size \in LargeSizes}

IngestLarge == \E out \in LargeCalls : Returns(out)

InitLarge == RGAIdle /\ LogIdle /\ RepoIdle /\ ConcIdle

NextLarge == Ingest \/ IngestLarge

SpecLarge == InitLarge /\ [][NextLarge]_vars

\* the document of file f in the repository repo, stream s
DocumentOf(repo, s, f) == Materialize(ReplayOn(NewRGA, repo.ops[s][f]))

\* C28: after the ingest of a file larger than the threshold the document is
\* the one line "EVO-LFS:<file>:<size>", whatever it held before; no op was
\* emitted if the document already was that stub line, and one Insert of
\* the stub line otherwise.
C28_LargeFileStub ==
    \A s \in Streams : \A size \in LargeSizes :
        LET out == storeLargeFile(s, TheFile, size)
            log == opsLog[s][TheFile]
            after == After(out).ops[s][TheFile]
        IN out.err = ErrNil =>
             /\ DocumentOf(After(out), s, TheFile) = <<StubLine[size]>>
             /\ IF DocumentOf(Repo, s, TheFile) = <<StubLine[size]>>
                THEN after = log
                ELSE /\ Len(after) = Len(log) + 1
                     /\ SubSeq(after, 1, Len(log)) = log
                     /\ after[Len(after)].Type = OpInsert
                     /\ after[Len(after)].Content = StubLine[size]


(***************************************************************************)
(* internal/crdt/compact: the goroutine of CompactionService.Start and     *)
(* Stop.  lfs.GarbageCollector has the same Start and Stop.                *)
(***************************************************************************)
\* the ticker sends on ticker.C, a channel that holds one value
TickerFires ==
    /\ service.pc # "returned"
    /\ ~service.tick
    /\ service' = [service EXCEPT !.tick = TRUE]
    /\ UNCHANGED <<rgaVars, logVars, repoVars, writers, cycle, reader, store>>

\* select takes case <-ticker.C; when done is closed as well both cases are
\* ready and select takes either
SelectTick ==
    /\ service.pc = "select"
    /\ service.tick
    /\ service' = [service EXCEPT !.pc = "tick", !.tick = FALSE]
    /\ UNCHANGED <<rgaVars, logVars, repoVars, writers, cycle, reader, store>>

\* CompactOperations and PruneTombstones run, then the loop selects again
TickRuns ==
    /\ service.pc = "tick"
    /\ opsLog' = PruneTombstones(serviceCompactOperations(opsLog))
    /\ service' = [service EXCEPT !.pc = "select"]
    /\ UNCHANGED <<commitDir, clock, nextID, lastCall, rgaVars, logVars, writers, cycle, reader, store>>

\* select takes case <-s.done: ticker.Stop() and return
SelectDone ==
    /\ service.pc = "select"
    /\ service.done
    /\ service' = [service EXCEPT !.pc = "returned"]
    /\ UNCHANGED <<rgaVars, logVars, repoVars, writers, cycle, reader, store>>

\* Stop: close(s.done), and Stop returns
Stop ==
    /\ ~service.done
    /\ service' = [service EXCEPT !.done = TRUE]
    /\ UNCHANGED <<rgaVars, logVars, repoVars, writers, cycle, reader, store>>

InitStop == RGAIdle /\ LogIdle /\ RepoIdle /\ ConcIdle

NextStop ==
    IngestNextToCycle \/ TickerFires \/ SelectTick \/ TickRuns \/ SelectDone \/ Stop

SpecStop == InitStop /\ [][NextStop]_vars

\* C29: once Stop has returned no compaction cycle is executing, the one in
\* progress included, and none starts.
C29_StopWaitsForTick == service.done => service.pc # "tick"


(***************************************************************************)
(* internal/crdt: Operation.CanCombine                                     *)
(***************************************************************************)
CanCombine(o, other) ==
    IF o.Stream # other.Stream THEN FALSE
    ELSE IF o.FileID # other.FileID THEN FALSE
    ELSE IF o.Type = OpDelete \/ other.Type = OpDelete THEN FALSE
    ELSE o.Lamport < other.Lamport

\* C30: for any two delivered ops, CanCombine(o, other) is true exactly when
\* they have the same stream, file, line and node, neither is a Delete, and
\* o.lamport < other.lamport.
C30_CanCombine ==
    \A o \in delivered : \A other \in delivered :
        CanCombine(o, other) <=>
            /\ o.Stream = other.Stream
            /\ o.FileID = other.FileID
            /\ o.LineID = other.LineID
            /\ o.NodeID = other.NodeID
            /\ o.Type # OpDelete /\ other.Type # OpDelete
            /\ o.Lamport < other.Lamport


(***************************************************************************)
(* internal/lfs: Store.StoreFile, ReadFile, DeleteFile, isChunkReferenced  *)
(* and GarbageCollector.Run.  The bytes of a file are a sequence of        *)
(* chunks; a chunk's hash names its bytes, and the content hash names the  *)
(* whole sequence.  StoreFile and DeleteFile hold Store.mu; Run holds the  *)
(* collector's own mutex only.                                             *)
(***************************************************************************)
MaxStoreCalls == 3
LfsFiles == {<<1>>, <<2>>, <<1, 2>>}
ErrNotExist == "file does not exist"

HasInfo(infos, id) == infos[id] # NoInfo

isChunkReferenced(infos, hash) ==
    \E id \in LfsIDs : \E k \in 1..Len(infos[id].Chunks) : infos[id].Chunks[k] = hash

\* os.ReadDir lists the directories by name: the first file, other than
\* `except`, whose info has the content hash
FirstWithHash(infos, hash, except) ==
    LET same == {id \in LfsIDs \ except : HasInfo(infos, id) /\ infos[id].ContentHash = hash}
    IN IF same = {} THEN 0 ELSE CHOOSE id \in same : \A other \in same : id <= other

\* StoreFile, first half: the mutex is taken and the chunks are written
StoreChunks(id, data) ==
    /\ store.mu = ""
    /\ store.n < MaxStoreCalls
    /\ store' = [store EXCEPT !.mu = "StoreFile", !.id = id, !.data = data,
                              !.chunks = @ \cup {data[k] : k \in 1..Len(data)}]
    /\ UNCHANGED <<rgaVars, logVars, repoVars, writers, cycle, reader, service>>

\* StoreFile, second half: a file with the same content hash gets its
\* RefCount raised and the new info copies it; otherwise the new info has
\* RefCount 1
StoreInfo ==
    /\ store.mu = "StoreFile"
    /\ LET id == store.id
           existing == FirstWithHash(store.infos, store.data, {})
           raised == [store.infos EXCEPT ![existing].RefCount = @ + 1]
           infos == IF existing # 0
                    THEN [raised EXCEPT ![id] = [raised[existing] EXCEPT !.RefCount = raised[existing].RefCount]]
                    ELSE [store.infos EXCEPT ![id] =
                             [ContentHash |-> store.data, Chunks |-> store.data, RefCount |-> 1]]
       IN store' = [store EXCEPT !.infos = infos, !.mu = "", !.id = 0, !.data = <<>>,
                                 !.stored[id] = store.data, !.n = @ + 1]
    /\ UNCHANGED <<rgaVars, logVars, repoVars, writers, cycle, reader, service>>

\* the loop of DeleteFile over the chunks of the deleted file: a chunk no
\* info references is removed; os.Remove of a missing file ends the call
RECURSIVE RemoveUnreferenced(_, _, _)
RemoveUnreferenced(list, chunks, infos) ==
    IF list = <<>> THEN chunks
    ELSE IF isChunkReferenced(infos, Head(list))
    THEN RemoveUnreferenced(Tail(list), chunks, infos)
    ELSE IF Head(list) \notin chunks THEN chunks
    ELSE RemoveUnreferenced(Tail(list), chunks \ {Head(list)}, infos)

DeleteFile(id) ==
    /\ store.mu = ""
    /\ store.n < MaxStoreCalls
    /\ HasInfo(store.infos, id)
    /\ LET info == store.infos[id]
           removed == [store.infos EXCEPT ![id] = NoInfo]
           other == FirstWithHash(removed, info.ContentHash, {id})
           infos == IF other # 0 THEN [removed EXCEPT ![other].RefCount = @ - 1] ELSE removed
       IN store' = [store EXCEPT !.infos = infos,
                                 !.chunks = RemoveUnreferenced(info.Chunks, store.chunks, infos),
                                 !.stored[id] = <<>>, !.n = @ + 1]
    /\ UNCHANGED <<rgaVars, logVars, repoVars, writers, cycle, reader, service>>

\* ReadFile: the info, then every chunk of it
ReadFile(id) ==
    IF ~HasInfo(store.infos, id) THEN [data |-> <<>>, err |-> ErrNotExist]
    ELSE IF \E k \in 1..Len(store.infos[id].Chunks) : store.infos[id].Chunks[k] \notin store.chunks
    THEN [data |-> <<>>, err |-> ErrNotExist]
    ELSE [data |-> store.infos[id].Chunks, err |-> ErrNil]

\* GarbageCollector.Run lists the chunk files
RunLists ==
    /\ ~store.running
    /\ store' = [store EXCEPT !.running = TRUE, !.gc = Ascending(store.chunks)]
    /\ UNCHANGED <<rgaVars, logVars, repoVars, writers, cycle, reader, service>>

\* Run looks at the next chunk of its list and removes it if no info
\* references it; a failing os.Remove ends the run
RunVisits ==
    /\ store.running
    /\ store.gc # <<>>
    /\ LET hash == Head(store.gc)
       IN IF isChunkReferenced(store.infos, hash)
          THEN store' = [store EXCEPT !.gc = Tail(@)]
          ELSE IF hash \in store.chunks
          THEN store' = [store EXCEPT !.gc = Tail(@), !.chunks = @ \ {hash}]
          ELSE store' = [store EXCEPT !.gc = <<>>, !.running = FALSE]
    /\ UNCHANGED <<rgaVars, logVars, repoVars, writers, cycle, reader, service>>

RunReturns ==
    /\ store.running
    /\ store.gc = <<>>
    /\ store' = [store EXCEPT !.running = FALSE]
    /\ UNCHANGED <<rgaVars, logVars, repoVars, writers, cycle, reader, service>>

StoreCalls == \E id \in LfsIDs : \E data \in LfsFiles : StoreChunks(id, data)
DeleteCalls == \E id \in LfsIDs : DeleteFile(id)

InitStore == RGAIdle /\ LogIdle /\ RepoIdle /\ ConcIdle

NextStore == StoreCalls \/ StoreInfo \/ DeleteCalls \/ RunLists \/ RunVisits \/ RunReturns

SpecStore == InitStore /\ [][NextStore]_vars

\* C31: whenever no StoreFile or DeleteFile is in progress, every file that
\* was stored and not deleted is read back by ReadFile with its original
\* bytes; and a step removes only chunks that no info references.
C31_StoredFilesReadable ==
    [][/\ store'.mu = "" =>
            \A id \in LfsIDs : store'.stored[id] # <<>> =>
                LET info == store'.infos[id]
                IN /\ info # NoInfo
                   /\ info.Chunks = store'.stored[id]
                   /\ \A k \in 1..Len(info.Chunks) : info.Chunks[k] \in store'.chunks
       /\ \A hash \in store.chunks \ store'.chunks : ~isChunkReferenced(store'.infos, hash)]_vars


\* C39: after any sequence of StoreFile and DeleteFile, the RefCount of every
\* stored file is the number of stored file ids with its content hash.
C39_RefCountConsistent ==
    store.mu = "" =>
        \A id \in LfsIDs : HasInfo(store.infos, id) =>
            store.infos[id].RefCount =
                Cardinality({other \in LfsIDs : /\ HasInfo(store.infos, other)
                                                /\ store.infos[other].ContentHash = store.infos[id].ContentHash})


(***************************************************************************)
(* Signing: types.CommitHashString hashes the fields it writes, and        *)
(* SignCommit/VerifyCommit sign and verify that hash.  SHA-256 and Ed25519 *)
(* are taken as ideal: the hash is the tuple of the fields written, the    *)
(* signature is determined by the signed bytes.                            *)
(***************************************************************************)
CommitHashString(c) == <<c.ID, c.Stream, c.Message, c.AuthorName, c.Timestamp>>
SignCommit(c) == [signed |-> CommitHashString(c)]
VerifyCommit(c, sig) == sig = SignCommit(c)

\* the commits that differ from c in one field of one op and in nothing else
Tampered(c) ==
    {[c EXCEPT !.Operations[k].Op.Lamport = lam] :
        <<k, lam>> \in {p \in (1..Len(c.Operations)) \X (0..MaxLamport + 1) :
                          c.Operations[p[1]].Op.Lamport # p[2]}}
    \cup {[c EXCEPT !.Operations[k].Op.NodeID = node] :
        <<k, node>> \in {p \in (1..Len(c.Operations)) \X NodeIDs :
                          c.Operations[p[1]].Op.NodeID # p[2]}}
    \cup {[c EXCEPT !.Operations[k].Op.LineID = line] :
        <<k, line>> \in {p \in (1..Len(c.Operations)) \X LineIDs :
                          c.Operations[p[1]].Op.LineID # p[2]}}
    \cup {[c EXCEPT !.Operations[k].Op.Content = content] :
        <<k, content>> \in {p \in (1..Len(c.Operations)) \X Contents :
                          c.Operations[p[1]].Op.Content # p[2]}}
    \cup {[c EXCEPT !.Operations[k].OldContent = old] :
        <<k, old>> \in {p \in (1..Len(c.Operations)) \X Contents :
                          c.Operations[p[1]].OldContent # p[2]}}

\* C32: two commits that agree on id, stream, message, author and timestamp
\* and differ in the lamport, node, line, content or old content of an op
\* have different signed bytes, and the signature of one does not verify
\* for the other.
C32_SignatureCoversOps ==
    \A c \in AllCommits : \A forged \in Tampered(c) :
        /\ CommitHashString(forged) # CommitHashString(c)
        /\ ~VerifyCommit(forged, SignCommit(c))


\* C33: after processFile of a tracked file that is not large, the replay of
\* the log materializes exactly the lines of the file on disk, whatever the
\* document held before and whatever the edit was (so that an ingest of the
\* unchanged file finds the two equal and emits no op).
C33_IngestReproducesFile ==
    \A s \in Streams : \A diskLines \in DiskFiles :
        LET out == processFile(s, TheFile, diskLines)
        IN out.err = ErrNil => DocumentOf(After(out), s, TheFile) = diskLines


\* C34: an op appended to a log while a compaction cycle runs is not lost to
\* the cycle.  A log that held no op when the cycle began holds only ops
\* appended since; no step taken before the cycle completes removes one.
C34_AppendDuringCompactionKept ==
    [][cycle.pc # "idle" =>
          \A s \in Streams : \A f \in RepoFiles :
              <<s, f>> \notin cycle.had => OpsIn(opsLog[s][f]) \subseteq OpsIn(opsLog'[s][f])]_vars


\* C35: PruneTombstones removes Delete ops only: every op of a log that is
\* not a Delete is still in that log after the tick.
C35_PruneKeepsNonDeletes ==
    [][Called("CompactionCycle")
        => \A s \in Streams : \A f \in RepoFiles : \A op \in OpsIn(opsLog[s][f]) :
              op.Type # OpDelete => op \in OpsIn(opsLog'[s][f])]_vars

\* C36: a tick on a repository whose streams all hold fewer ops than max_ops
\* leaves every op log file as it was.
C36_BelowThresholdUnchanged ==
    [][(/\ Called("CompactionCycle")
        /\ \A s \in Streams :
              Cardinality(UNION {OpsIn(opsLog[s][f]) : f \in RepoFiles}) < DefaultMaxOps)
        => opsLog' = opsLog]_vars


(***************************************************************************)
(* internal/crdt/compact: the pure CompactOperations(ops, cfg).  The slice *)
(* ops has a length and a capacity; time.Now() is an input; the two sorts  *)
(* are not stable, so the call has a set of outcomes.                      *)
(***************************************************************************)
Config(maxOps, ttl, minOpsToKeep) ==
    [MaxOps |-> maxOps, TombstoneTTL |-> ttl, MinOpsToKeep |-> minOpsToKeep]

\* the last op of the sorted history of each line, one choice per line
FinalOps(ops) ==
    LET lines == {ops[k].LineID : k \in 1..Len(ops)}
        lineHistory(l) == SelectSeq(ops, LAMBDA op : op.LineID = l)
    IN {fn \in [lines -> OpsIn(ops)] :
           \A l \in lines : \E t \in SortSlice(lineHistory(l)) : fn[l] = t[Len(t)]}

\* ops[:n] of a slice with the capacity given: the elements beyond the
\* length are whatever the backing array holds
Reslice(ops, capacity, n) ==
    IF n > capacity THEN {[ops |-> <<>>, panic |-> TRUE]}
    ELSE IF n <= Len(ops) THEN {[ops |-> SubSeq(ops, 1, n), panic |-> FALSE]}
    ELSE {[ops |-> ops \o beyond, panic |-> FALSE] :
             beyond \in [1..(n - Len(ops)) -> OpUniverse \cup {NoOp}]}

CompactOperations(ops, capacity, cfg, now) ==
    IF Len(ops) < cfg.MaxOps THEN {[ops |-> ops, panic |-> FALSE]}
    ELSE UNION {
        LET kept == Ascending({l \in DOMAIN finalOp :
                        ~(/\ finalOp[l].Type = OpDelete
                          /\ now - finalOp[l].Timestamp > cfg.TombstoneTTL)})
        IN UNION {IF Len(compacted) < cfg.MinOpsToKeep
                  THEN Reslice(ops, capacity, cfg.MinOpsToKeep)
                  ELSE {[ops |-> compacted, panic |-> FALSE]} :
                     compacted \in SortSlice([k \in 1..Len(kept) |-> finalOp[kept[k]]])} :
        finalOp \in FinalOps(ops)}

\* the configurations and the readings of time.Now() considered
Configs ==
    {Config(maxOps, ttl, minOpsToKeep) :
        maxOps \in 0..MaxApplied, ttl \in {0, 1}, minOpsToKeep \in 0..(MaxApplied + 1)}
Nows == {0, 1}

\* the n most recent ops of a list all occur in the list kept
KeepsMostRecent(ops, kept, n) ==
    \E t \in SortSlice(ops) :
        \A k \in (Len(t) - n + 1)..Len(t) : \E j \in 1..Len(kept) : kept[j] = t[k]

\* C37: CompactOperations never indexes out of range, whatever MaxOps and
\* MinOpsToKeep are; and of a list with at least min_ops_to_keep ops it
\* retains at least min_ops_to_keep ops, the min_ops_to_keep most recent
\* ones by (lamport, node) among them.
C37_CompactionFloor ==
    \A cfg \in Configs : \A now \in Nows : \A capacity \in {Len(rga.ops), Len(rga.ops) + 1} :
        \A out \in CompactOperations(GetOperations(rga), capacity, cfg, now) :
            /\ ~out.panic
            /\ Len(rga.ops) >= cfg.MinOpsToKeep =>
                  /\ Len(out.ops) >= cfg.MinOpsToKeep
                  /\ KeepsMostRecent(rga.ops, out.ops, cfg.MinOpsToKeep)


\* C38: after a crash left a partial record in a log, LoadAllOps returns
\* every op that AppendOp wrote, the ops appended after the crash as well
\* as the complete records from before it.
C38_AppendsAfterTornWrite ==
    tail = "dirty" =>
        \A k \in 1..Len(appended) : Persisted(appended[k]) \in OpsIn(LoadAllOps(logFile).ops)


\* C40: MergeStreams(S, T), PartialMerge(S, T, filter) and CherryPick(c, T)
\* write to the target only: the op logs and the commit records of every
\* stream other than T are after the call, completed or killed, what they
\* were before it; and every write of such a call is an AppendOp to a log of
\* T or a commit record saved in T, no write to HEAD or to a stream marker.
C40_SourceUntouched ==
    [][/\ (/\ lastCall'.n = lastCall.n + 1
           /\ lastCall'.call \in {"MergeStreams", "PartialMerge", "CherryPick"})
           => \A s \in Streams \ {lastCall'.stream} :
                 /\ opsLog'[s] = opsLog[s]
                 /\ commitDir'[s] = commitDir[s]
       /\ \A out \in MergeCalls \cup PickCalls \cup PartialCalls :
              \A k \in 1..Len(out.effects) :
                 /\ out.effects[k].kind \in {"AppendOp", "SaveCommit"}
                 /\ out.effects[k].stream = out.stream]_vars

\* a merge or cherry-pick has copied a commit with ops from another stream,
\* whose log holds ops, into the target
C40_Witness ==
    /\ lastCall.call \in {"MergeStreams", "PartialMerge", "CherryPick"}
    /\ lastCall.done /\ lastCall.err = ErrNil
    /\ \E s \in Streams \ {lastCall.stream} :
          /\ \E f \in RepoFiles : opsLog[s][f] # <<>>
          /\ \E c \in commitDir[s] : \E nc \in commitDir[lastCall.stream] :
                /\ c.Operations # <<>>
                /\ Len(nc.Operations) = Len(c.Operations)
                /\ \A i \in 1..Len(c.Operations) : opKey(nc.Operations[i].Op) = opKey(c.Operations[i].Op)
                /\ \A i \in 1..Len(c.Operations) : InLog(lastCall.stream, nc.Operations[i].Op)

====
